---------------------------- MODULE Spec2Model ----------------------------
(***************************************************************************)
(* Model of gerar_tabelas.py: the change-detection gate and pipeline of    *)
(* main(), the table normaliser process_table() and the merger             *)
(* process_and_concatenate_tables().                                       *)
(*                                                                         *)
(* Texts (cell texts, labels, tokens, keys) are sequences of one-character *)
(* strings, so the string operations of the code (strip, replace, parse,   *)
(* concatenate) are computed character by character.                       *)
(*                                                                         *)
(* Three specifications share the module:                                  *)
(*   Spec       runs of main() against a server and a file system;         *)
(*   SpecTable  process_table() applied to every grid of Grids;            *)
(*   SpecMerge  process_and_concatenate_tables() applied to every list of  *)
(*              at most MaxTables tables of TableCatalog.                  *)
(***************************************************************************)
EXTENDS Integers, Sequences, FiniteSets, TLC

VARIABLES
    \* ---- SpecTable: one call of process_table
    table_df,       \* the argument: a DataFrame, first row the header
    t_pc,           \* "call" | "returned" | "raised"
    t_result,       \* the returned frame: sequence of [AnoMes, Fator]
    t_src,          \* ghost: for each returned entry, its <<data row, column>>
    \* ---- SpecMerge: one call of process_and_concatenate_tables
    tables_list,    \* the argument: a sequence of table objects [df]
    m_pc,           \* "call" | "loop" | "returned" | "raised"
    m_i,            \* index of the table the loop handles next
    processed_dfs,  \* the fragments appended so far
    m_result,       \* the returned frame
    \* ---- Spec: the environment of main()
    server,             \* index into ServerVersions: what the server serves now
    last_modified_file, \* LAST_MODIFIED_FILE: [exists, data]
    output_json,        \* OUTPUT_JSON: [exists, data]
    output_csv,         \* OUTPUT_CSV: [exists, data]
    \* ---- Spec: one run of main()
    pc,                 \* "idle" | "head" | "read" | "fetch" | "process" | "save" | "store" | "exited"
    current_server_lm,  \* a token or PyNone
    stored_lm,          \* a token or PyNone
    pdf_tables,         \* [none, tables]
    final_dataframe,
    exit_code,          \* the process's exit status, -1 while it runs
    outcome,            \* "none" | "changed" | "noop" | "failure"
    \* ---- Spec: ghosts
    calls,              \* the functions main() has called in this run, in order
    failed_at,          \* the stage of this run that failed, or "none"
    fetched_doc,        \* the document version fetch_and_parse_pdf read, 0 if none
    read_error,         \* get_stored_last_modified hit an IOError in this run
    lm_before,          \* the three files as they were when the run started
    json_before,
    csv_before,
    prev_outcome,       \* outcome, exit status and server token of the previous run
    prev_exit_code,
    prev_lm,
    runs                \* number of runs started

tableVars == <<table_df, t_pc, t_result, t_src>>

mergeVars == <<tables_list, m_pc, m_i, processed_dfs, m_result>>

envVars == <<server, last_modified_file, output_json, output_csv>>

runVars == <<pc, current_server_lm, stored_lm, pdf_tables, final_dataframe,
             exit_code, outcome>>

ghostVars == <<calls, failed_at, fetched_doc, read_error, lm_before, json_before,
               csv_before, prev_outcome, prev_exit_code, prev_lm, runs>>

mainVars == <<envVars, runVars, ghostVars>>

vars == <<tableVars, mergeVars, mainVars>>

(***************************************************************************)
(* Bounds                                                                  *)
(***************************************************************************)
MaxRows == 2      \* data rows of a grid of Grids

MaxTables == 2    \* tables of a list of SpecMerge

MaxRuns == 2      \* runs of main() in a behaviour of Spec

(***************************************************************************)
(* Texts                                                                   *)
(***************************************************************************)
Digits == {"0", "1", "2", "3", "4", "5", "6", "7", "8", "9"}

DigitVal(c) ==
    CASE c = "0" -> 0 [] c = "1" -> 1 [] c = "2" -> 2 [] c = "3" -> 3
      [] c = "4" -> 4 [] c = "5" -> 5 [] c = "6" -> 6 [] c = "7" -> 7
      [] c = "8" -> 8 [] c = "9" -> 9

\* Python whitespace characters that occur in the model's texts.
Whitespace == {" ", "\t", "\n"}

\* Python's None as a cell / value of the object column (a one-element text
\* whose only character is no character of any real text).
PyNone == <<"<None>">>

\* NaN in an object (text) column, e.g. the result of Series.map on a miss.
NaNText == <<"<NaN>">>

IsNull(x) == x = PyNone \/ x = NaNText

\* str.replace(old, new, regex=False) for a one-character old; new is a text.
StrReplace(s, old, new) ==
    LET F[i \in 0..Len(s)] ==
            IF i = 0 THEN <<>>
            ELSE F[i - 1] \o (IF s[i] = old THEN new ELSE <<s[i]>>)
    IN F[Len(s)]

\* Series.astype(str) on one value: None becomes the text 'None'.
AsStr(x) ==
    IF x = PyNone THEN <<"N", "o", "n", "e">>
    ELSE IF x = NaNText THEN <<"n", "a", "n">>
    ELSE x

\* s[lo..hi] for the least and greatest index of a set of indexes.
Span(s, idx) ==
    SubSeq(s, CHOOSE i \in idx : \A j \in idx : i <= j,
              CHOOSE i \in idx : \A j \in idx : j <= i)

\* str.strip(): leading and trailing whitespace removed.
Strip(s) ==
    IF \A i \in 1..Len(s) : s[i] \in Whitespace THEN <<>>
    ELSE Span(s, {i \in 1..Len(s) : s[i] \notin Whitespace})

(***************************************************************************)
(* Numbers: a float is modelled as the exact decimal mant / 10^scale,      *)
(* normalised (no trailing zero in the fraction), or +-inf, or NaN.        *)
(***************************************************************************)
NaN == [kind |-> "nan", neg |-> FALSE, mant |-> 0, scale |-> 0]

Inf(neg) == [kind |-> "inf", neg |-> neg, mant |-> 0, scale |-> 0]

RECURSIVE Normalise(_, _, _)
Normalise(neg, mant, scale) ==
    IF scale > 0 /\ mant % 10 = 0 THEN Normalise(neg, mant \div 10, scale - 1)
    ELSE [kind |-> "float", neg |-> (neg /\ mant # 0), mant |-> mant, scale |-> scale]

Float(neg, mant, scale) == Normalise(neg, mant, scale)

DigitsToNat(s) ==
    LET F[i \in 0..Len(s)] == IF i = 0 THEN 0 ELSE 10 * F[i - 1] + DigitVal(s[i])
    IN F[Len(s)]

\* The unsigned part of a numeral: 'inf' / 'infinity', or digits with at most
\* one '.' and at least one digit; anything else is NaN.
ParseBody(body, neg) ==
    IF body \in {<<"i", "n", "f">>, <<"i", "n", "f", "i", "n", "i", "t", "y">>}
    THEN Inf(neg)
    ELSE IF /\ \A i \in 1..Len(body) : body[i] \in Digits \cup {"."}
            /\ Cardinality({i \in 1..Len(body) : body[i] = "."}) <= 1
            /\ \E i \in 1..Len(body) : body[i] \in Digits
    THEN Float(neg, DigitsToNat(SelectSeq(body, LAMBDA c : c \in Digits)),
               Cardinality({i \in 1..Len(body) :
                              \E j \in 1..(i - 1) : body[j] = "."}))
    ELSE NaN

ParseSigned(s) ==
    IF Len(s) > 0 /\ s[1] \in {"+", "-"} THEN ParseBody(Tail(s), s[1] = "-")
    ELSE ParseBody(s, FALSE)

\* pd.to_numeric(text, errors='coerce') on one text: surrounding whitespace
\* skipped, an optional sign, then the unsigned part; NaN when it does not
\* parse.  (Exponents are not modelled: no text of the model holds one.)
ToNumeric(text) == ParseSigned(Strip(text))

(***************************************************************************)
(* meses (lines 8-11)                                                      *)
(***************************************************************************)
meses ==
    << <<<<"J", "A", "N">>, <<"0", "1">>>>, <<<<"F", "E", "V">>, <<"0", "2">>>>,
       <<<<"M", "A", "R">>, <<"0", "3">>>>, <<<<"A", "B", "R">>, <<"0", "4">>>>,
       <<<<"M", "A", "I">>, <<"0", "5">>>>, <<<<"J", "U", "N">>, <<"0", "6">>>>,
       <<<<"J", "U", "L">>, <<"0", "7">>>>, <<<<"A", "G", "O">>, <<"0", "8">>>>,
       <<<<"S", "E", "T">>, <<"0", "9">>>>, <<<<"O", "U", "T">>, <<"1", "0">>>>,
       <<<<"N", "O", "V">>, <<"1", "1">>>>, <<<<"D", "E", "Z">>, <<"1", "2">>>> >>

\* Series.map(meses_dict) on one value: the mapped text, NaN on a miss.
MapMes(mes, meses_dict) ==
    IF \E i \in 1..Len(meses_dict) : meses_dict[i][1] = mes
    THEN meses_dict[CHOOSE i \in 1..Len(meses_dict) : meses_dict[i][1] = mes][2]
    ELSE NaNText

(***************************************************************************)
(* process_table (lines 14-49)                                             *)
(***************************************************************************)
\* A DataFrame is a sequence of rows of equal length (its cells are texts or
\* PyNone); pd.DataFrame(list of lists) pads short rows with None.
Width(rows) ==
    IF rows = <<>> THEN 0
    ELSE CHOOSE n \in {Len(rows[i]) : i \in 1..Len(rows)} :
            \A i \in 1..Len(rows) : Len(rows[i]) <= n

Padded(rows, w) ==
    [i \in 1..Len(rows) |->
       [j \in 1..w |-> IF j <= Len(rows[i]) THEN rows[i][j] ELSE PyNone]]

DataFrame(rows) == Padded(rows, Width(rows))

NCols(df) == IF df = <<>> THEN 0 ELSE Len(df[1])

\* df.empty or len(df.columns) == 0 (line 21)
IsEmptyFrame(df) == Len(df) = 0 \/ NCols(df) = 0

\* pd.melt raises when the id column's label labels another column too
\* (frame.pop returns a frame, not a column), or when value_name 'Fator' is
\* already a column label (line 41).
MeltRaises(header) ==
    \/ \E c \in 2..Len(header) : header[c] = header[1]
    \/ \E c \in 1..Len(header) : header[c] = <<"F", "a", "t", "o", "r">>

\* Column whose label pd.melt gives the k-th melted row, for m data rows:
\* frame.columns.repeat(m), i.e. each value column's label m times in a row.
MeltVarColTiled(k, m, ncols) == ((k - 1) % (ncols - 1)) + 2

MeltVarCol(k, m, ncols) == ((k - 1) \div m) + 2

\* pd.melt(df, id_vars=[first column], var_name='Ano', value_name='Fator')
\* (lines 41-42): one triple per (value column, data row); the values are the
\* value columns laid end to end (column-major), the id column is tiled.
\* row and col are ghost fields: where the triple's value sits in the body.
Melt(header, body) ==
    [k \in 1..((Len(header) - 1) * Len(body)) |->
       [Mes |-> body[((k - 1) % Len(body)) + 1][1],
        Ano |-> header[MeltVarCol(k, Len(body), Len(header))],
        Fator |-> body[((k - 1) % Len(body)) + 1][((k - 1) \div Len(body)) + 2],
        row |-> ((k - 1) % Len(body)) + 1,
        col |-> ((k - 1) \div Len(body)) + 2]]

\* line 44 without its replace: Ano as text, spaces kept.
NormaliseAnoKeepsSpaces(ano) == AsStr(ano)

\* line 44: Ano as text with every space removed.
NormaliseAno(ano) == StrReplace(AsStr(ano), " ", <<>>)

\* line 45 with format detection: a text without ',' is parsed as it stands.
NormaliseFatorDetectsFormat(fator) ==
    IF \E i \in 1..Len(AsStr(fator)) : AsStr(fator)[i] = ","
    THEN ToNumeric(StrReplace(StrReplace(AsStr(fator), ".", <<>>), ",", <<".">>))
    ELSE ToNumeric(AsStr(fator))

\* line 45: remove every '.', replace every ',' by '.', parse or coerce to NaN.
NormaliseFator(fator) ==
    ToNumeric(StrReplace(StrReplace(AsStr(fator), ".", <<>>), ",", <<".">>))

\* lines 44-45 on every melted row.
Typed(melted) ==
    [k \in 1..Len(melted) |->
       [Mes |-> melted[k].Mes, Ano |-> NormaliseAno(melted[k].Ano),
        Fator |-> NormaliseFator(melted[k].Fator),
        row |-> melted[k].row, col |-> melted[k].col]]

\* A melted row kept by the whole-row variant of dropna: no value cell of
\* its data row is NaN.
DropNaKeepsWholeRow(triples, t) ==
    /\ ~IsNull(t.Mes)
    /\ \A i \in 1..Len(triples) :
          triples[i].row = t.row => triples[i].Fator.kind # "nan"

\* line 46: dropna() keeps a melted row iff none of Mes, Ano, Fator is null
\* (Ano is a text after line 44, never null).
DropNaKeeps(triples, t) == ~IsNull(t.Mes) /\ t.Fator.kind # "nan"

DropNa(triples) == SelectSeq(triples, LAMBDA t : DropNaKeeps(triples, t))

\* lines 47-48 with a miss of the map read as the empty text.
AnoMesEmptyOnMiss(ano, mm) == IF IsNull(mm) THEN ano \o <<"-">> ELSE ano \o <<"-">> \o mm

\* lines 47-48: the key, NaN when the month did not map.
AnoMes(ano, mm) == IF IsNull(mm) THEN NaNText ELSE ano \o <<"-">> \o mm

\* lines 47-48 on every kept row.
Keyed(kept, meses_dict) ==
    [k \in 1..Len(kept) |->
       [AnoMes |-> AnoMes(kept[k].Ano, MapMes(kept[k].Mes, meses_dict)),
        Fator |-> kept[k].Fator, row |-> kept[k].row, col |-> kept[k].col]]

\* lines 41-49 on a frame that passed the guards of lines 21 and 35:
\* the surviving rows, in order, with their ghost fields.
ProcessTableRows(df, meses_dict) ==
    Keyed(DropNa(Typed(Melt(df[1], Tail(df)))), meses_dict)

\* line 49: the frame indexed by 'Ano-Mês' with its 'Fator' column (df), and
\* the ghost cell positions of its entries (src).
Returned(rows) ==
    [raised |-> FALSE,
     df |-> [k \in 1..Len(rows) |->
               [AnoMes |-> rows[k].AnoMes, Fator |-> rows[k].Fator]],
     src |-> [k \in 1..Len(rows) |-> <<rows[k].row, rows[k].col>>]]

\* process_table: [raised, df, src].
process_table(df, meses_dict) ==
    IF IsEmptyFrame(df)
    THEN [raised |-> FALSE, df |-> <<>>, src |-> <<>>]
    ELSE IF MeltRaises(df[1])
    THEN [raised |-> TRUE, df |-> <<>>, src |-> <<>>]
    ELSE Returned(ProcessTableRows(df, meses_dict))

(***************************************************************************)
(* process_and_concatenate_tables (lines 104-133)                          *)
(***************************************************************************)
\* Lines 114-116 once process_table has returned or raised (r).
Appended(dfs, r) == IF ~r.raised /\ r.df # <<>> THEN Append(dfs, r.df) ELSE dfs

\* The loop body without its try/except: process_table's exception escapes.
LoopBodyNoCatch(dfs, table_obj) ==
    [dfs |-> Appended(dfs, process_table(table_obj.df, meses)),
     escaped |-> process_table(table_obj.df, meses).raised]

\* lines 112-120: one table; an exception of process_table is caught and the
\* table skipped, an empty fragment is not appended.
LoopBody(dfs, table_obj) ==
    [dfs |-> Appended(dfs, process_table(table_obj.df, meses)),
     escaped |-> FALSE]

\* A concatenation that keeps, of the entries with one key, the first only.
ConcatKeepFirstKey(dfs) ==
    LET F[i \in 0..Len(dfs)] ==
            IF i = 0 THEN <<>>
            ELSE F[i - 1] \o SelectSeq(dfs[i], LAMBDA e :
                     \A k \in 1..Len(F[i - 1]) : F[i - 1][k].AnoMes # e.AnoMes)
    IN F[Len(dfs)]

\* pd.concat(processed_dfs) (line 127): the fragments' rows, in order.
Concat(dfs) ==
    LET F[i \in 0..Len(dfs)] == IF i = 0 THEN <<>> ELSE F[i - 1] \o dfs[i]
    IN F[Len(dfs)]

\* lines 110-120: the loop over the first n tables of l: [dfs, escaped].
RECURSIVE Loop(_, _)
Loop(l, n) ==
    IF n = 0 THEN [dfs |-> <<>>, escaped |-> FALSE]
    ELSE IF Loop(l, n - 1).escaped THEN Loop(l, n - 1)
    ELSE LoopBody(Loop(l, n - 1).dfs, l[n])

\* lines 122-133 once the loop has ended (end).
AfterLoop(end) ==
    IF end.escaped THEN [raised |-> TRUE, df |-> <<>>]
    ELSE [raised |-> FALSE, df |-> Concat(end.dfs)]

\* The whole function: [raised, df]. tables is [none, tables] (None or a list).
process_and_concatenate_tables(tables) ==
    IF tables.none \/ tables.tables = <<>>
    THEN [raised |-> FALSE, df |-> <<>>]
    ELSE AfterLoop(Loop(tables.tables, Len(tables.tables)))

(***************************************************************************)
(* Inputs of SpecTable: the grids process_table is applied to              *)
(***************************************************************************)
MesAno == <<"M", "e", "s", "/", "A", "n", "o">>   \* 'Mês/Ano', the tests' label
Y2023 == <<"2", "0", "2", "3">>
Y2024 == <<"2", "0", "2", "4">>
Y2_023 == <<"2", " ", "0", "2", "3">>
JAN == <<"J", "A", "N">>
FEV == <<"F", "E", "V">>
XXX == <<"X", "X", "X">>                          \* no month code
Empty == <<>>
Dash == <<"-">>
NA == <<"N", "/", "A">>
V1000 == <<"1", ".", "0", "0", "0", ",", "0", "0">>
V1100 == <<"1", ".", "1", "0", "0", ",", "0", "0">>
V1010 == <<"1", ".", "0", "1", "0", ",", "0", "0">>
V2c5 == <<"2", ",", "5">>
V1234567c89 == <<"1", ".", "2", "3", "4", ".", "5", "6", "7", ",", "8", "9">>
V1234c56 == <<"1", ".", "2", "3", "4", ",", "5", "6">>
V1000p00 == <<"1", "0", "0", "0", ".", "0", "0">>     \* '1000.00'
V123p45 == <<"1", "2", "3", ".", "4", "5">>          \* '123.45'
Vm1c5 == <<"-", "1", ",", "5">>                      \* '-1,5'
Vinf == <<"i", "n", "f">>
Y2t023 == <<"2", "\t", "0", "2", "3">>               \* a year label holding a tab

\* The factor text a well-formed source holds for a month and a column.
ValidText(mes, col) ==
    IF mes = JAN THEN (IF col = 2 THEN V1000 ELSE V1100)
    ELSE (IF col = 2 THEN V1010 ELSE V2c5)

\* The texts a cell may hold: the valid one, or one that does not parse ('-'
\* and the non-numeric token in the first year column only).
CellChoices(mes, col) ==
    {ValidText(mes, col), Empty} \cup (IF col = 2 THEN {Dash, NA} ELSE {})

\* Data rows under a header of two year columns: month code, then one text
\* per year column; a row may miss its trailing cells (tests, lines 268-287).
StandardRows ==
    UNION {
        {<<mes, a, b>> : a \in CellChoices(mes, 2), b \in CellChoices(mes, 3)}
        \cup {<<mes, a>> : a \in CellChoices(mes, 2)}
        \cup {<<mes>>}
      : mes \in {JAN, FEV} }

SpecialRows ==
    {<<JAN, V1000, V1100>>, <<FEV, V1010, Empty>>, <<XXX, V1000, Dash>>,
     <<JAN, V1000>>, <<XXX, NA>>, <<JAN>>,
     <<JAN, V1234567c89>>, <<JAN, V1234c56>>, <<JAN, V1000p00>>,
     <<FEV, V123p45>>, <<JAN, Vm1c5>>, <<FEV, Vinf>>}

SpecialHeaders ==
    {<<MesAno>>, <<MesAno, Y2023>>, <<MesAno, Y2_023, Y2023>>,
     <<Empty, Y2023, Empty>>, <<Y2023, Y2023>>, <<MesAno, Y2t023>>}

SeqsUpTo(S, n) == UNION {[1..k -> S] : k \in 0..n}

\* create_raw_df (tests, lines 18-29): header row first, then the data rows.
create_raw_df(data_rows, header_row) == DataFrame(<<header_row>> \o data_rows)

\* The grids of at most n data rows, and the two empty frames of the tests
\* (pd.DataFrame() and pd.DataFrame([[]])).
Grids(n) ==
    {create_raw_df(rows, <<MesAno, Y2023, Y2024>>) :
        rows \in SeqsUpTo(StandardRows, n)}
    \cup UNION {
        {create_raw_df(rows, h) :
            rows \in SeqsUpTo({r \in SpecialRows : Len(r) <= Len(h)}, n)}
      : h \in SpecialHeaders }
    \cup {<<>>, << <<>> >>}

(***************************************************************************)
(* Inputs of SpecMerge and of Spec: table objects and documents            *)
(***************************************************************************)
ExampleGrid ==
    create_raw_df(<< <<JAN, V1000, V1100>>, <<FEV, V1010, Empty>> >>,
                  <<MesAno, Y2023, Y2024>>)

TblA == [df |-> create_raw_df(<< <<JAN, V1000>> >>, <<MesAno, Y2023>>)]
TblB == [df |-> create_raw_df(<< <<JAN, V1100>> >>, <<MesAno, Y2024>>)]
TblEx == [df |-> ExampleGrid]
TblHeaderOnly == [df |-> create_raw_df(<<>>, <<MesAno, Y2023>>)]
TblAllBad == [df |-> create_raw_df(<< <<JAN, NA>>, <<FEV, Dash>> >>, <<MesAno, Y2023>>)]
TblRaise == [df |-> create_raw_df(<< <<JAN, V1000>> >>, <<Y2023, Y2023>>)]

TableCatalog == {TblA, TblB, TblEx, TblHeaderOnly, TblAllBad, TblRaise}

\* The document versions a server may hold: each the tables camelot finds.
Docs ==
    << <<TblA>>,                 \* one table
       <<TblA, TblRaise, TblB>>, \* a malformed table between two good ones
       <<>>,                     \* no table found
       <<TblAllBad>>,            \* tables, but no entry survives
       <<TblA, TblEx>> >>        \* the same key in two tables

TokA == <<"A">>
TokB == <<"B">>
TokBsp == <<"B", " ">>          \* a header value that ends in a space

\* What the server serves: the Last-Modified value and the document version.
ServerVersions ==
    << [lm |-> TokA, doc |-> 1], [lm |-> TokB, doc |-> 2],
       [lm |-> TokBsp, doc |-> 1], [lm |-> TokA, doc |-> 3],
       [lm |-> TokB, doc |-> 4], [lm |-> TokBsp, doc |-> 5] >>

(***************************************************************************)
(* Idle values of the variables a specification does not use               *)
(***************************************************************************)
NoFile(data) == [exists |-> FALSE, data |-> data]

File(data) == [exists |-> TRUE, data |-> data]

NoSeries == [df |-> <<>>, doc |-> 0, complete |-> FALSE]

NoTables == [none |-> TRUE, tables |-> <<>>]

IdleTable ==
    /\ table_df = <<>>
    /\ t_pc = "idle"
    /\ t_result = <<>>
    /\ t_src = <<>>

IdleMerge ==
    /\ tables_list = <<>>
    /\ m_pc = "idle"
    /\ m_i = 0
    /\ processed_dfs = <<>>
    /\ m_result = <<>>

IdleMain ==
    /\ server = 1
    /\ last_modified_file = NoFile(<<>>)
    /\ output_json = NoFile(NoSeries)
    /\ output_csv = NoFile(NoSeries)
    /\ pc = "idle"
    /\ current_server_lm = PyNone
    /\ stored_lm = PyNone
    /\ pdf_tables = NoTables
    /\ final_dataframe = <<>>
    /\ exit_code = -1
    /\ outcome = "none"
    /\ calls = <<>>
    /\ failed_at = "none"
    /\ fetched_doc = 0
    /\ read_error = FALSE
    /\ lm_before = NoFile(<<>>)
    /\ json_before = NoFile(NoSeries)
    /\ csv_before = NoFile(NoSeries)
    /\ prev_outcome = "none"
    /\ prev_exit_code = -1
    /\ prev_lm = PyNone
    /\ runs = 0

(***************************************************************************)
(* SpecTable: process_table applied to one grid                            *)
(***************************************************************************)
InitTable ==
    /\ table_df \in Grids(MaxRows)
    /\ t_pc = "call"
    /\ t_result = <<>>
    /\ t_src = <<>>
    /\ IdleMerge
    /\ IdleMain

PT_Returns(r) ==
    /\ t_pc' = "returned"
    /\ t_result' = r.df
    /\ t_src' = r.src
    /\ UNCHANGED <<table_df, mergeVars, mainVars>>

\* lines 21-24: empty or column-less frame, empty result.
PT_ReturnEmpty ==
    /\ t_pc = "call"
    /\ IsEmptyFrame(table_df)
    /\ PT_Returns(process_table(table_df, meses))

\* line 41: pd.melt raises; the exception leaves process_table.
PT_Raise ==
    /\ t_pc = "call"
    /\ ~IsEmptyFrame(table_df)
    /\ process_table(table_df, meses).raised
    /\ t_pc' = "raised"
    /\ UNCHANGED <<table_df, t_result, t_src, mergeVars, mainVars>>

\* lines 26-49: the normal return.
PT_Return ==
    /\ t_pc = "call"
    /\ ~IsEmptyFrame(table_df)
    /\ ~process_table(table_df, meses).raised
    /\ PT_Returns(process_table(table_df, meses))

NextTable == PT_ReturnEmpty \/ PT_Raise \/ PT_Return

SpecTable == InitTable /\ [][NextTable]_vars

(***************************************************************************)
(* SpecMerge: process_and_concatenate_tables applied to one list           *)
(***************************************************************************)
InitMerge ==
    /\ tables_list \in SeqsUpTo(TableCatalog, MaxTables)
    /\ m_pc = "call"
    /\ m_i = 0
    /\ processed_dfs = <<>>
    /\ m_result = <<>>
    /\ IdleTable
    /\ IdleMain

\* lines 106-107: no tables, empty frame.
PCT_NoTables ==
    /\ m_pc = "call"
    /\ tables_list = <<>>
    /\ m_pc' = "returned"
    /\ m_result' = <<>>
    /\ UNCHANGED <<tables_list, m_i, processed_dfs, tableVars, mainVars>>

\* lines 109-110: enter the loop.
PCT_EnterLoop ==
    /\ m_pc = "call"
    /\ tables_list # <<>>
    /\ m_pc' = "loop"
    /\ m_i' = 1
    /\ processed_dfs' = <<>>
    /\ UNCHANGED <<tables_list, m_result, tableVars, mainVars>>

PCT_Iterated(r) ==
    /\ processed_dfs' = r.dfs
    /\ m_pc' = IF r.escaped THEN "raised" ELSE "loop"

\* lines 110-120: one iteration.
PCT_Iterate ==
    /\ m_pc = "loop"
    /\ m_i <= Len(tables_list)
    /\ PCT_Iterated(LoopBody(processed_dfs, tables_list[m_i]))
    /\ m_i' = m_i + 1
    /\ UNCHANGED <<tables_list, m_result, tableVars, mainVars>>

\* lines 122-124: no table gave a non-empty fragment.
PCT_NoneProcessed ==
    /\ m_pc = "loop"
    /\ m_i > Len(tables_list)
    /\ processed_dfs = <<>>
    /\ m_pc' = "returned"
    /\ m_result' = <<>>
    /\ UNCHANGED <<tables_list, m_i, processed_dfs, tableVars, mainVars>>

\* lines 126-130: concatenate and return.  (The except branch of lines
\* 131-133 is not reachable: the fragments all have the one column 'Fator'.)
PCT_Concat ==
    /\ m_pc = "loop"
    /\ m_i > Len(tables_list)
    /\ processed_dfs # <<>>
    /\ m_pc' = "returned"
    /\ m_result' = Concat(processed_dfs)
    /\ UNCHANGED <<tables_list, m_i, processed_dfs, tableVars, mainVars>>

NextMerge ==
    PCT_NoTables \/ PCT_EnterLoop \/ PCT_Iterate \/ PCT_NoneProcessed \/ PCT_Concat

SpecMerge == InitMerge /\ [][NextMerge]_vars

(***************************************************************************)
(* Helpers of main(): external interactions (lines 58-101, 136-156)        *)
(***************************************************************************)
\* How a write to a file can end: done; open() fails and the file is as it
\* was; or the file was opened (created or truncated) and the write failed.
IOOutcomes == {"ok", "open_fails", "write_fails"}

\* get_current_last_modified_from_server (lines 58-67): the header value as
\* the server sends it, None when the request fails.
get_current_last_modified_from_server(version, ok) ==
    IF ok THEN version.lm ELSE PyNone

\* get_stored_last_modified (lines 69-77): the file's text stripped, None
\* when the file does not exist or cannot be read.
get_stored_last_modified(file, ok) ==
    IF file.exists /\ ok THEN Strip(file.data) ELSE PyNone

\* open(path, 'w') and a write of data.
WriteFile(file, data, partial, io) ==
    CASE io = "ok" -> File(data)
      [] io = "open_fails" -> file
      [] io = "write_fails" -> File(partial)

\* store_last_modified_to_file (lines 79-86): the timestamp written as it
\* is; an IOError is printed and swallowed.
store_last_modified_to_file(file, timestamp, io) ==
    WriteFile(file, timestamp, <<>>, io)

\* fetch_and_parse_pdf (lines 88-101): the tables of the document the server
\* holds now, None when reading fails or no table is found.
fetch_and_parse_pdf(version, ok) ==
    IF ok /\ Docs[version.doc] # <<>>
    THEN [none |-> FALSE, tables |-> Docs[version.doc]]
    ELSE NoTables

\* DataFrame.to_json (orient='columns') refuses an index that is not unique,
\* before it opens the file.
IndexIsUnique(df) ==
    \A i, j \in 1..Len(df) : df[i].AnoMes = df[j].AnoMes => i = j

\* lines 150-155 once the JSON file is written.
SaveCsv(json, csv, series, io_csv) ==
    [ok |-> io_csv = "ok", json |-> json,
     csv |-> WriteFile(csv, series, [series EXCEPT !.complete = FALSE], io_csv)]

\* save_dataframes (lines 136-156): [ok, json, csv], the two files after it.
\* series is the frame with the ghost document version it was derived from.
save_dataframes(series, json, csv, io_json, io_csv) ==
    IF series.df = <<>> THEN [ok |-> FALSE, json |-> json, csv |-> csv]
    ELSE IF ~IndexIsUnique(series.df)
    THEN [ok |-> FALSE, json |-> json, csv |-> csv]
    ELSE IF io_json # "ok"
    THEN [ok |-> FALSE,
          json |-> WriteFile(json, series, [series EXCEPT !.complete = FALSE], io_json),
          csv |-> csv]
    ELSE SaveCsv(File(series), csv, series, io_csv)

(***************************************************************************)
(* main() (lines 159-195)                                                  *)
(***************************************************************************)
\* line 172, with the else branch: the variant that forgets the CSV file.
GateSkipsJsonOnly(current, stored, json, csv) ==
    current = stored /\ json.exists

\* line 172: the condition of the no-op path.
GateSkips(current, stored, json, csv) ==
    current = stored /\ json.exists /\ csv.exists

\* The exit status of a run by its outcome, all runs exiting 0.
ExitStatusAlwaysZero(out) == 0

\* The exit status of a run by its outcome: sys.exit(0) on the no-op path
\* (line 174), sys.exit(1) on every failure (lines 165, 181, 186, 195), and
\* the status of a script that ends normally, 0, after line 192.
ExitStatus(out) == IF out = "failure" THEN 1 ELSE 0

\* line 179 without its test: a failed fetch goes on to processing.
FetchFailedIgnored(tables) == FALSE

\* line 179: pdf_tables is None
FetchFailed(tables) == tables.none

\* line 190 without its test: the token is stored whatever save returned.
StoresTokenAlways(save_successful) == TRUE

\* line 190: if save_successful
StoresToken(save_successful) == save_successful

Init ==
    /\ IdleTable
    /\ IdleMerge
    /\ IdleMain

\* sys.exit(status), or the normal end of the script.
Exit(out) ==
    /\ pc' = "exited"
    /\ outcome' = out
    /\ exit_code' = ExitStatus(out)

\* main() goes on to its next call.
GoOn(next) ==
    /\ pc' = next
    /\ UNCHANGED <<outcome, exit_code>>

\* Ghost: the first stage of the run that failed.
FirstFailure(failed, stage) ==
    IF failed /\ failed_at = "none" THEN stage ELSE failed_at

\* The script is started: the ghosts remember the files and the last run.
StartRun ==
    /\ pc \in {"idle", "exited"}
    /\ runs < MaxRuns
    /\ runs' = runs + 1
    /\ pc' = "head"
    /\ current_server_lm' = PyNone
    /\ stored_lm' = PyNone
    /\ pdf_tables' = NoTables
    /\ final_dataframe' = <<>>
    /\ exit_code' = -1
    /\ outcome' = "none"
    /\ calls' = <<>>
    /\ failed_at' = "none"
    /\ fetched_doc' = 0
    /\ read_error' = FALSE
    /\ lm_before' = last_modified_file
    /\ json_before' = output_json
    /\ csv_before' = output_csv
    /\ prev_outcome' = outcome
    /\ prev_exit_code' = exit_code
    /\ prev_lm' = current_server_lm
    /\ UNCHANGED <<envVars, tableVars, mergeVars>>

\* lines 161-165
GetCurrentLastModified ==
    /\ pc = "head"
    /\ \E ok \in BOOLEAN :
          /\ current_server_lm' =
                get_current_last_modified_from_server(ServerVersions[server], ok)
          /\ IF current_server_lm' = PyNone THEN Exit("failure") ELSE GoOn("read")
          /\ failed_at' = FirstFailure(current_server_lm' = PyNone, "head")
    /\ calls' = Append(calls, "get_current_last_modified_from_server")
    /\ UNCHANGED <<envVars, stored_lm, pdf_tables, final_dataframe, fetched_doc,
                   read_error, lm_before, json_before, csv_before, prev_outcome,
                   prev_exit_code, prev_lm, runs, tableVars, mergeVars>>

\* lines 167-176
ReadStoredAndGate ==
    /\ pc = "read"
    /\ \E ok \in BOOLEAN :
          /\ stored_lm' = get_stored_last_modified(last_modified_file, ok)
          /\ read_error' = (last_modified_file.exists /\ ~ok)
    /\ IF GateSkips(current_server_lm, stored_lm', output_json, output_csv)
       THEN Exit("noop")
       ELSE GoOn("fetch")
    /\ UNCHANGED failed_at
    /\ calls' = Append(calls, "get_stored_last_modified")
    /\ UNCHANGED <<envVars, current_server_lm, pdf_tables, final_dataframe,
                   fetched_doc, lm_before, json_before, csv_before, prev_outcome,
                   prev_exit_code, prev_lm, runs, tableVars, mergeVars>>

\* lines 178-181
FetchAndParse ==
    /\ pc = "fetch"
    /\ \E ok \in BOOLEAN :
          pdf_tables' = fetch_and_parse_pdf(ServerVersions[server], ok)
    /\ fetched_doc' = ServerVersions[server].doc
    /\ IF FetchFailed(pdf_tables') THEN Exit("failure") ELSE GoOn("process")
    /\ failed_at' = FirstFailure(pdf_tables'.none, "fetch")
    /\ calls' = Append(calls, "fetch_and_parse_pdf")
    /\ UNCHANGED <<envVars, current_server_lm, stored_lm, final_dataframe,
                   read_error, lm_before, json_before, csv_before, prev_outcome,
                   prev_exit_code, prev_lm, runs, tableVars, mergeVars>>

\* lines 183-186
ProcessAndConcatenate ==
    /\ pc = "process"
    /\ final_dataframe' = process_and_concatenate_tables(pdf_tables).df
    /\ IF final_dataframe' = <<>> THEN Exit("failure") ELSE GoOn("save")
    /\ failed_at' = FirstFailure(final_dataframe' = <<>>, "process")
    /\ calls' = Append(calls, "process_and_concatenate_tables")
    /\ UNCHANGED <<envVars, current_server_lm, stored_lm, pdf_tables, fetched_doc,
                   read_error, lm_before, json_before, csv_before, prev_outcome,
                   prev_exit_code, prev_lm, runs, tableVars, mergeVars>>

SaveReturned(r) ==
    /\ output_json' = r.json
    /\ output_csv' = r.csv
    /\ IF StoresToken(r.ok) THEN GoOn("store") ELSE Exit("failure")
    /\ failed_at' = FirstFailure(~r.ok, "save")

\* lines 188-190 and 193-195
SaveDataframes ==
    /\ pc = "save"
    /\ \E io_json \in IOOutcomes, io_csv \in IOOutcomes :
          SaveReturned(save_dataframes(
              [df |-> final_dataframe, doc |-> fetched_doc, complete |-> TRUE],
              output_json, output_csv, io_json, io_csv))
    /\ calls' = Append(calls, "save_dataframes")
    /\ UNCHANGED <<server, last_modified_file, current_server_lm, stored_lm,
                   pdf_tables, final_dataframe, fetched_doc, read_error, lm_before,
                   json_before, csv_before, prev_outcome, prev_exit_code, prev_lm,
                   runs, tableVars, mergeVars>>

\* lines 191-192, and the script's normal end
StoreLastModified ==
    /\ pc = "store"
    /\ \E io \in IOOutcomes :
          last_modified_file' =
              store_last_modified_to_file(last_modified_file, current_server_lm, io)
    /\ Exit("changed")
    /\ calls' = Append(calls, "store_last_modified_to_file")
    /\ UNCHANGED <<server, output_json, output_csv, current_server_lm, stored_lm,
                   pdf_tables, final_dataframe, failed_at, fetched_doc, read_error,
                   lm_before, json_before, csv_before, prev_outcome, prev_exit_code,
                   prev_lm, runs, tableVars, mergeVars>>

\* Environment: the server's document is replaced, between runs or during one.
ServerUpdate ==
    /\ \E v \in 1..Len(ServerVersions) :
          /\ v # server
          /\ server' = v
    /\ UNCHANGED <<last_modified_file, output_json, output_csv, runVars, ghostVars,
                   tableVars, mergeVars>>

\* Environment: between runs an output file is removed (a fresh checkout, a
\* cleaned working directory).
RemoveOutputFile ==
    /\ pc \in {"idle", "exited"}
    /\ pc' = "idle"
    /\ \/ /\ output_json.exists
          /\ output_json' = NoFile(NoSeries)
          /\ UNCHANGED output_csv
       \/ /\ output_csv.exists
          /\ output_csv' = NoFile(NoSeries)
          /\ UNCHANGED output_json
    /\ UNCHANGED <<server, last_modified_file, current_server_lm, stored_lm,
                   pdf_tables, final_dataframe, exit_code, outcome, ghostVars,
                   tableVars, mergeVars>>

Next ==
    \/ StartRun
    \/ GetCurrentLastModified
    \/ ReadStoredAndGate
    \/ FetchAndParse
    \/ ProcessAndConcatenate
    \/ SaveDataframes
    \/ StoreLastModified
    \/ ServerUpdate
    \/ RemoveOutputFile

Spec == Init /\ [][Next]_vars

(***************************************************************************)
(* Properties of main(), checked under Spec                                *)
(***************************************************************************)
\* The functions main() calls, in the order of its code.
StageOrder ==
    <<"get_current_last_modified_from_server", "get_stored_last_modified",
      "fetch_and_parse_pdf", "process_and_concatenate_tables",
      "save_dataframes", "store_last_modified_to_file">>

Called(f) == \E i \in 1..Len(calls) : calls[i] = f

\* The gate's condition as the claim states it, on the files as the run
\* found them.
TokenUnchangedAndOutputsPresent ==
    current_server_lm = stored_lm /\ json_before.exists /\ csv_before.exists

FilesAsBefore ==
    /\ last_modified_file = lm_before
    /\ output_json = json_before
    /\ output_csv = csv_before

\* C1: once the current token is obtained and the stored token read, the run
\* takes the no-op path exactly when the tokens are equal and both output
\* files exist; the no-op path calls nothing further, writes no file and
\* exits 0; in every other case the run goes on to fetch the document.
C1_GateSkipsExactly ==
    Called("get_stored_last_modified") /\ pc # "idle" =>
        IF TokenUnchangedAndOutputsPresent
        THEN /\ pc = "exited"
             /\ outcome = "noop"
             /\ exit_code = 0
             /\ calls = SubSeq(StageOrder, 1, 2)
             /\ FilesAsBefore
        ELSE /\ outcome # "noop"
             /\ pc = "fetch" \/ Called("fetch_and_parse_pdf")

C1_Witness ==
    /\ pc = "exited"
    /\ outcome = "noop"
    /\ stored_lm = TokA
    /\ current_server_lm = TokA
    /\ output_json.exists
    /\ output_csv.exists

\* C2: a run in which a stage failed (token fetch, document fetch, empty
\* merged series, save) leaves the token file as it was when the run started.
C2_FailedRunKeepsToken ==
    pc = "exited" /\ (outcome = "failure" \/ failed_at # "none") =>
        last_modified_file = lm_before

C2_Witness ==
    /\ pc = "exited"
    /\ failed_at = "save"
    /\ lm_before.exists
    /\ lm_before.data # current_server_lm
    /\ last_modified_file = lm_before

\* C3: when the stored token T1 differs from the current token T2 and the
\* run ends with the success outcome, the token file holds T2.
C3_SuccessStoresCurrentToken ==
    /\ pc = "exited"
    /\ outcome = "changed"
    /\ lm_before.exists
    /\ stored_lm # PyNone
    /\ stored_lm # <<>>
    /\ stored_lm # current_server_lm
    => last_modified_file = File(current_server_lm)

\* C4: after a run that ended with the success outcome for token T, the next
\* run, finding the server token still T and both output files present, takes
\* the no-op path and has no side effect.  (Stated for the runs in which the
\* token file holds exactly T and is read without an I/O error.)
C4_RerunIsNoOp ==
    /\ pc = "exited"
    /\ prev_outcome = "changed"
    /\ current_server_lm = prev_lm
    /\ lm_before = File(prev_lm)
    /\ ~read_error
    /\ json_before.exists
    /\ csv_before.exists
    => /\ outcome = "noop"
       /\ calls = SubSeq(StageOrder, 1, 2)
       /\ FilesAsBefore

StageIndex(stage) ==
    CASE stage = "head" -> 1
      [] stage = "fetch" -> 3
      [] stage = "process" -> 4
      [] stage = "save" -> 5

\* C5: a run aborts at the first failing stage with exit status 1 and calls
\* nothing after it; no function is called twice in a run.
C5_AbortsAtFirstFailure ==
    /\ \A i, j \in 1..Len(calls) : calls[i] = calls[j] => i = j
    /\ calls = SubSeq(StageOrder, 1, Len(calls))
    /\ failed_at # "none" =>
          /\ pc \in {"exited", "idle"}
          /\ outcome = "failure"
          /\ exit_code = 1
          /\ calls = SubSeq(StageOrder, 1, StageIndex(failed_at))
    /\ pc = "exited" /\ outcome = "failure" => failed_at # "none"

C5_Witness ==
    /\ pc = "exited"
    /\ failed_at = "process"
    /\ exit_code = 1
    /\ calls = SubSeq(StageOrder, 1, 4)

\* C6 (outcomes and exit statuses): every finished run has exactly one of the three outcomes;
\* failure exits with status 1 and both success outcomes, with changes and
\* no-op, exit with status 0.
C6_OutcomesAndExitStatus ==
    /\ pc = "exited" =>
          /\ outcome \in {"changed", "noop", "failure"}
          /\ outcome = "failure" => exit_code = 1
          /\ outcome \in {"changed", "noop"} => exit_code = 0
    /\ pc \in {"head", "read", "fetch", "process", "save", "store"} =>
          outcome = "none" /\ exit_code = -1

\* C6 (pairwise distinct signals): two runs that end with different outcomes end with
\* different exit statuses.
C6_ThreeDistinctSignals ==
    /\ pc = "exited"
    /\ prev_outcome # "none"
    /\ outcome # prev_outcome
    => exit_code # prev_exit_code

C6_Witness ==
    /\ pc = "exited"
    /\ outcome = "noop"
    /\ prev_outcome = "changed"
    /\ exit_code = 0
    /\ prev_exit_code = 0

\* C7: a run that ends in failure leaves both output files as they were when
\* the run started.
C7_FailedRunLeavesOutputs ==
    pc = "exited" /\ outcome = "failure" =>
        output_json = json_before /\ output_csv = csv_before

(***************************************************************************)
(* Properties of process_and_concatenate_tables, checked under SpecMerge   *)
(***************************************************************************)
Count(seq, e) == Cardinality({k \in 1..Len(seq) : seq[k] = e})

Thousand(n) == [kind |-> "float", neg |-> FALSE, mant |-> n, scale |-> 0]

\* The fragment process_table gives for the i-th table of the list.
Fragment(i) == process_table(tables_list[i].df, meses)

\* The tables whose normalisation neither raises nor yields an empty fragment.
Contributing == {i \in 1..Len(tables_list) : ~Fragment(i).raised /\ Fragment(i).df # <<>>}

\* C8: no exception escapes process_and_concatenate_tables, and its result
\* holds every entry of every fragment of a table that normalises to a
\* non-empty fragment, as often as these fragments hold it, and nothing
\* else: a table that raises or yields an empty fragment adds nothing and
\* removes nothing.
C8_BadTablesAreSkipped ==
    /\ m_pc # "raised"
    /\ m_pc = "returned" =>
          \A e \in {m_result[k] : k \in 1..Len(m_result)}
                   \cup UNION {{Fragment(i).df[k] : k \in 1..Len(Fragment(i).df)} :
                                 i \in Contributing} :
             Count(m_result, e) =
                Cardinality(UNION {{<<i, k>> : k \in {k \in 1..Len(Fragment(i).df) :
                                                        Fragment(i).df[k] = e}} :
                                     i \in Contributing})

C8_Witness ==
    /\ m_pc = "returned"
    /\ Len(tables_list) >= 2
    /\ Fragment(1).raised
    /\ 2 \in Contributing
    /\ Len(m_result) = Len(Fragment(2).df)
    /\ m_result # <<>>

\* The fragments of the first n tables that are neither raised nor empty,
\* laid end to end in table order.
RECURSIVE FragmentsInOrder(_)
FragmentsInOrder(n) ==
    IF n = 0 THEN <<>>
    ELSE FragmentsInOrder(n - 1)
           \o (IF n \in Contributing THEN Fragment(n).df ELSE <<>>)

Key2023m01 == <<"2", "0", "2", "3", "-", "0", "1">>

Key2024m01 == <<"2", "0", "2", "4", "-", "0", "1">>

\* C17: the result is the non-empty fragments laid end to end in table
\* order, entries in their order, nothing removed: its length is the sum of
\* the fragments' lengths, a key held by two tables occurs twice, and the
\* fragments {2023-01: 1000.0} and {2024-01: 1100.0} give both entries.
C17_ConcatenatesWithoutDedup ==
    m_pc = "returned" =>
        /\ m_result = FragmentsInOrder(Len(tables_list))
        /\ tables_list = <<TblA, TblB>> =>
              m_result = << [AnoMes |-> Key2023m01, Fator |-> Thousand(1000)],
                            [AnoMes |-> Key2024m01, Fator |-> Thousand(1100)] >>
        /\ tables_list = <<TblA, TblEx>> =>
              Cardinality({k \in 1..Len(m_result) : m_result[k].AnoMes = Key2023m01}) = 2

C17_Witness ==
    /\ m_pc = "returned"
    /\ tables_list = <<TblA, TblEx>>
    /\ Len(m_result) = 4
    /\ m_result[1].AnoMes = m_result[2].AnoMes

(***************************************************************************)
(* Properties of process_table, checked under SpecTable                    *)
(***************************************************************************)
Header == table_df[1]

Body == Tail(table_df)

\* The cells of the data rows under the year columns.
DataCells == (1..Len(Body)) \X (2..Len(Header))

IsYearLabel(label) ==
    /\ label # <<>>
    /\ \A i \in 1..Len(label) : label[i] \in Digits \cup {" "}
    /\ \E i \in 1..Len(label) : label[i] \in Digits

MonthCodes == {meses[i][1] : i \in 1..Len(meses)}

\* A grid as C9 takes it: a row-label column followed by year labels, every
\* data row starting with a month code.
WellFormedGrid ==
    /\ ~IsEmptyFrame(table_df)
    /\ ~IsYearLabel(Header[1])
    /\ Header[1] # <<"F", "a", "t", "o", "r">>
    /\ \A c \in 2..Len(Header) : IsYearLabel(Header[c])
    /\ \A r \in 1..Len(Body) : Body[r][1] \in MonthCodes

\* The factor text of a cell parses.
Parses(cell) == NormaliseFator(cell).kind # "nan"

TwoDigitMonth(mes) == meses[CHOOSE i \in 1..Len(meses) : meses[i][1] = mes][2]

\* The entry C9 expects of the data cell p = <<row, column>>.
ExpectedEntry(p) ==
    [AnoMes |-> SelectSeq(Header[p[2]], LAMBDA ch : ch # " ") \o <<"-">>
                  \o TwoDigitMonth(Body[p[1]][1]),
     Fator |-> NormaliseFator(Body[p[1]][p[2]])]

ExampleResult ==
    << [AnoMes |-> <<"2", "0", "2", "3", "-", "0", "1">>, Fator |-> Thousand(1000)],
       [AnoMes |-> <<"2", "0", "2", "3", "-", "0", "2">>, Fator |-> Thousand(1010)],
       [AnoMes |-> <<"2", "0", "2", "4", "-", "0", "1">>, Fator |-> Thousand(1100)] >>

\* C9: for a well-formed grid process_table returns, and its result holds
\* exactly one entry per data cell whose factor text parses, keyed year, '-',
\* two-digit month of the cell's row, with the cell's parsed value, and no
\* other entry; the grid of the end-to-end scenario yields its three entries.
C9_OneEntryPerParsedCell ==
    /\ (t_pc # "call" /\ WellFormedGrid) =>
          /\ t_pc = "returned"
          /\ Len(t_result) = Cardinality({p \in DataCells : Parses(Body[p[1]][p[2]])})
          /\ \A e \in {t_result[k] : k \in 1..Len(t_result)}
                      \cup {ExpectedEntry(p) : p \in DataCells} :
                Count(t_result, e) =
                   Cardinality({p \in DataCells :
                                  Parses(Body[p[1]][p[2]]) /\ ExpectedEntry(p) = e})
    /\ (t_pc # "call" /\ table_df = ExampleGrid) =>
          t_pc = "returned" /\ t_result = ExampleResult

C9_Witness ==
    /\ t_pc = "returned"
    /\ table_df = ExampleGrid
    /\ WellFormedGrid
    /\ Len(t_result) = 3

\* The cell texts C10 names: empty, '-', a non-numeric token, a missing cell.
Unparsable == {<<>>, <<"-">>, <<"N", "/", "A">>, PyNone}

Produced(p) == Cardinality({k \in 1..Len(t_src) : t_src[k] = p})

\* C10: a data cell whose text is empty, '-', a non-numeric token or missing
\* produces no entry, and every other cell of its row and of its column
\* whose text parses still produces its one entry.
C10_OnlyTheBadCellIsDropped ==
    t_pc = "returned" /\ ~IsEmptyFrame(table_df) =>
        \A p \in DataCells :
            Body[p[1]][p[2]] \in Unparsable =>
                /\ Produced(p) = 0
                /\ \A q \in DataCells :
                      /\ q # p
                      /\ q[1] = p[1] \/ q[2] = p[2]
                      /\ Parses(Body[q[1]][q[2]])
                      => Produced(q) = 1

C10_Witness ==
    /\ t_pc = "returned"
    /\ Len(table_df) = 3
    /\ Len(Header) = 3
    /\ Body[1][2] = NA
    /\ Body[1][3] = V1100
    /\ Body[2][2] = V1010
    /\ Body[2][3] = PyNone
    /\ t_src = << <<2, 2>>, <<1, 3>> >>

\* The text of the data cell an entry of the result came from.
SourceText(k) == Body[t_src[k][1]][t_src[k][2]]

Decimal(mant, scale) == [kind |-> "float", neg |-> FALSE, mant |-> mant, scale |-> scale]

\* The result holds an entry for a cell of text c, and each such entry has
\* the factor v.
YieldsFactor(c, v) ==
    \A k \in 1..Len(t_result) : SourceText(k) = c => t_result[k].Fator = v

CommasToPoints(w) == [i \in 1..Len(w) |-> IF w[i] = "," THEN "." ELSE w[i]]

\* The rule of C11 on a cell text: every '.' removed, then every ',' made '.'.
RuleText(c) == CommasToPoints(SelectSeq(c, LAMBDA ch : ch # "."))

C12_PointDecimalKeepsValue ==
    t_pc = "returned" /\ ~IsEmptyFrame(table_df) =>
        /\ YieldsFactor(V1000p00, Decimal(1000, 0))
        /\ YieldsFactor(V123p45, Decimal(12345, 2))

\* C13: no whitespace character (space, tab, newline) is left in the year
\* segment of a key: every key of the result is free of whitespace.
C13_NoWhitespaceInKeys ==
    t_pc = "returned" =>
        \A k \in 1..Len(t_result) :
            t_result[k].AnoMes # NaNText =>
                \A i \in 1..Len(t_result[k].AnoMes) :
                    t_result[k].AnoMes[i] \notin Whitespace

\* C14: for a grid with no row, with a row but no column, or with a header
\* row only, process_table returns the empty series and does not raise.
C14_EmptyInputGivesEmptySeries ==
    t_pc # "call" /\ (IsEmptyFrame(table_df) \/ Len(table_df) = 1) =>
        t_pc = "returned" /\ t_result = <<>>

\* A year label of four digits, possibly separated by spaces.
IsFourDigitYear(label) ==
    /\ \A i \in 1..Len(label) : label[i] \in Digits \cup {" "}
    /\ Cardinality({i \in 1..Len(label) : label[i] \in Digits}) = 4

\* The fixed mapping of the month codes, JAN -> 01 ... DEZ -> 12.
FixedMonth(code) ==
    CASE code = <<"J", "A", "N">> -> <<"0", "1">> [] code = <<"F", "E", "V">> -> <<"0", "2">>
      [] code = <<"M", "A", "R">> -> <<"0", "3">> [] code = <<"A", "B", "R">> -> <<"0", "4">>
      [] code = <<"M", "A", "I">> -> <<"0", "5">> [] code = <<"J", "U", "N">> -> <<"0", "6">>
      [] code = <<"J", "U", "L">> -> <<"0", "7">> [] code = <<"A", "G", "O">> -> <<"0", "8">>
      [] code = <<"S", "E", "T">> -> <<"0", "9">> [] code = <<"O", "U", "T">> -> <<"1", "0">>
      [] code = <<"N", "O", "V">> -> <<"1", "1">> [] code = <<"D", "E", "Z">> -> <<"1", "2">>

\* key is four digits, '-', and the two digits mm.
IsYearMonthKey(key, mm) ==
    /\ Len(key) = 7
    /\ \A i \in 1..4 : key[i] \in Digits
    /\ key[5] = "-"
    /\ SubSeq(key, 6, 7) = mm

\* C15: for a well-formed grid whose year labels hold four digits, every key
\* of the result is four digits, '-', and the two digits the fixed mapping
\* gives the month code of the entry's row.
C15_KeysAreYearMonth ==
    /\ t_pc = "returned"
    /\ WellFormedGrid
    /\ \A c \in 2..Len(Header) : IsFourDigitYear(Header[c])
    => \A k \in 1..Len(t_result) :
          IsYearMonthKey(t_result[k].AnoMes, FixedMonth(Body[t_src[k][1]][1]))

C15_Witness ==
    /\ t_pc = "returned"
    /\ Len(table_df) = 3
    /\ Header = <<MesAno, Y2_023, Y2023>>
    /\ Len(Body) = 2
    /\ Body[1][1] = JAN
    /\ Body[2][1] = FEV
    /\ Len(t_result) = 3
    /\ t_result[2].AnoMes = <<"2", "0", "2", "3", "-", "0", "2">>

\* C16: every factor of the result is a finite number that is not negative.
C16_FactorsFiniteNonNegative ==
    t_pc = "returned" =>
        \A k \in 1..Len(t_result) :
            t_result[k].Fator.kind = "float" /\ ~t_result[k].Fator.neg

\* C18: no two entries of one result carry the same key.
C18_KeysUniqueInFragment ==
    t_pc = "returned" =>
        \A i, j \in 1..Len(t_result) :
            t_result[i].AnoMes = t_result[j].AnoMes => i = j

\* The data cells of the rows whose first cell is a text that is no month code.
UnknownMonthCells ==
    {p \in DataCells : ~IsNull(Body[p[1]][1]) /\ Body[p[1]][1] \notin MonthCodes}

\* Every entry that came from cell p has the key key.
KeyOf(p, key) ==
    \A k \in 1..Len(t_result) : t_src[k] = p => t_result[k].AnoMes = key

\* C19 (key missing): a cell of a row whose first cell is no month code
\* produces one entry when its factor parses, and that entry's key is
\* missing (NaN); it produces none when its factor does not parse.
C19_UnknownMonthKeepsEntryWithoutKey ==
    t_pc = "returned" /\ ~IsEmptyFrame(table_df) =>
        \A p \in UnknownMonthCells :
            IF Parses(Body[p[1]][p[2]])
            THEN Produced(p) = 1 /\ KeyOf(p, NaNText)
            ELSE Produced(p) = 0

\* C19 (empty month segment): the entry of such a cell has the key made of
\* the normalised year, '-' and nothing.
C19_UnknownMonthGivesEmptySegment ==
    t_pc = "returned" /\ ~IsEmptyFrame(table_df) =>
        \A p \in UnknownMonthCells :
            Parses(Body[p[1]][p[2]]) =>
                /\ Produced(p) = 1
                /\ KeyOf(p, SelectSeq(Header[p[2]], LAMBDA ch : ch # " ") \o <<"-">>)

C19_Witness ==
    /\ t_pc = "returned"
    /\ Len(table_df) = 2
    /\ Body[1] = <<XXX, V1000, Dash>>
    /\ Len(t_result) = 1
    /\ t_result[1].AnoMes = NaNText
    /\ t_result[1].Fator = Thousand(1000)

(***************************************************************************)
(* Skip safety of main(), checked under Spec                               *)
(***************************************************************************)
\* The document versions the server identifies by the token tok.
DocsOf(tok) ==
    {ServerVersions[v].doc : v \in {v \in 1..Len(ServerVersions) :
                                      ServerVersions[v].lm = tok}}

\* The series process_and_concatenate_tables derives from document doc.
SeriesOf(doc) ==
    process_and_concatenate_tables([none |-> FALSE, tables |-> Docs[doc]]).df

\* The output file holds, whole, the series of a document identified by tok.
HoldsSeriesFor(file, tok) ==
    /\ file.data.complete
    /\ file.data.doc \in DocsOf(tok)
    /\ file.data.df = SeriesOf(file.data.doc)

\* C20: between runs, whenever the token file holds a token T of the server
\* (as it is read back) and both output files exist, both output files hold
\* the series of the document version the server identifies by T.
C20_SkipIsSafe ==
    /\ pc \in {"idle", "exited"}
    /\ last_modified_file.exists
    /\ DocsOf(Strip(last_modified_file.data)) # {}
    /\ output_json.exists
    /\ output_csv.exists
    => /\ HoldsSeriesFor(output_json, Strip(last_modified_file.data))
       /\ HoldsSeriesFor(output_csv, Strip(last_modified_file.data))

=============================================================================
